---- MODULE Spec2Model ----
(***************************************************************************)
(* Bookmark Tab Planner: src/llm.py (select_tabs_with_llm and its helpers) *)
(* and src/main.py (the /tabs endpoint and the keyword scorer).            *)
(*                                                                         *)
(* One behaviour handles one call: a direct call of select_tabs_with_llm,  *)
(* a POST /tabs request, or an application of the keyword scorer.          *)
(* select_tabs_with_llm suspends once, at its await of the completion      *)
(* request, so it is two steps: everything up to the request being issued, *)
(* and everything from the reply to the return.                            *)
(*                                                                         *)
(* Strings that the code inspects character by character (prompt, title,   *)
(* description, tags) are sequences of one-character strings.  Scores are  *)
(* Python floats; the model keeps them in tenths (0.5 is 5, 1.0 is 10).    *)
(***************************************************************************)
EXTENDS Integers, Sequences, FiniteSets, TLC

VARIABLES
    env_api_key,   \* os.getenv("OPENAI_API_KEY") is set (process-wide, read-only)
    pc,            \* "idle" | "awaiting" (suspended at the await) | "done"
    entry,         \* which operation this behaviour runs
    args,          \* the keyword arguments select_tabs_with_llm was called with
    calls,         \* completion requests issued to the provider so far
    response,      \* what the await produced
    outcome,       \* how select_tabs_with_llm ended: a return value or an exception
    http,          \* the HTTP answer of POST /tabs
    heur           \* input and result of the keyword scorer / ranker

vars == <<env_api_key, pc, entry, args, calls, response, outcome, http, heur>>

(***************************************************************************)
(* Bounds of the model.                                                    *)
(***************************************************************************)
MaxItems == 2        \* longest `tabs` array in a model reply
MaxTabs == 2         \* largest max_tabs / limit tried
MaxTitleLen == 3     \* longest bookmark title handed to the scorer
MaxPromptTokens == 2 \* largest prompt token set handed to the scorer
MaxRanked == 3       \* longest bookmark list handed to the ranker

Absent == "<absent>"

Min(a, b) == IF a <= b THEN a ELSE b
Max(a, b) == IF a >= b THEN a ELSE b

SeqsUpTo(S, n) == UNION {[1..k -> S] : k \in 0..n}

(***************************************************************************)
(* Text: str.strip().                                                      *)
(***************************************************************************)
IsSpace(c) == c = " "

RECURSIVE LStrip(_)
LStrip(s) ==
    IF s # <<>> /\ IsSpace(Head(s)) THEN LStrip(Tail(s)) ELSE s

RECURSIVE RStrip(_)
RStrip(s) ==
    IF s # <<>> /\ IsSpace(s[Len(s)]) THEN RStrip(SubSeq(s, 1, Len(s) - 1)) ELSE s

Strip(s) == RStrip(LStrip(s))

(***************************************************************************)
(* Inputs of the LLM path.  A URL is an opaque value; BadUrl stands for a  *)
(* string pydantic's HttpUrl rejects.  A record is valid when its url is   *)
(* (title is a str in every record drawn here).                            *)
(***************************************************************************)
BadUrl == "not-a-url"
BookmarkUrls == {"https://a", "https://b"}
ForeignUrl == "https://x"

HttpUrlOk(u) == u # BadUrl

BookmarkPayload_validate(b) == HttpUrlOk(b.url)
BrowsingHistoryPayload_validate(h) == HttpUrlOk(h.url)
OpenTabPayload_validate(t) == HttpUrlOk(t.url)

Bookmark(u) == [url |-> u]
\* The bookmark lists tried; the first holds an invalid record, the others are what
\* the framework lets through to POST /tabs.
InvalidBookmarkLists == {<<Bookmark(BadUrl)>>, <<Bookmark("https://a"), Bookmark(BadUrl)>>}
ValidBookmarkLists ==
    {<<>>, <<Bookmark("https://a")>>, <<Bookmark("https://a"), Bookmark("https://b")>>}
ContextRecords == [url : {ForeignUrl, BadUrl}]
\* history / open_tabs: None, or a list of records
NoneArg == [given |-> FALSE, list |-> <<>>]
OptionalContext == {NoneArg} \cup {[given |-> TRUE, list |-> <<r>>] : r \in ContextRecords}

Prompts == {<<>>, <<" ">>, <<" ", "a">>}

(***************************************************************************)
(* select_tabs_with_llm up to the await (src/llm.py 187-231).              *)
(***************************************************************************)
\* The checks of lines 187-218, in the code's order: the ValueError raised, or "none".
ValidateArgs(a) ==
    IF Strip(a.prompt) = <<>> THEN "Prompt must not be empty."
    ELSE IF a.bookmarks = <<>> THEN "At least one bookmark must be provided."
    ELSE IF a.max_tabs <= 0 THEN "max_tabs must be greater than zero."
    ELSE IF \E i \in 1..Len(a.bookmarks) : ~BookmarkPayload_validate(a.bookmarks[i])
        THEN "Invalid bookmark payload"
    ELSE IF a.history.given
            /\ \E i \in 1..Len(a.history.list) : ~BrowsingHistoryPayload_validate(a.history.list[i])
        THEN "Invalid browsing history payload"
    ELSE IF a.open_tabs.given
            /\ \E i \in 1..Len(a.open_tabs.list) : ~OpenTabPayload_validate(a.open_tabs.list[i])
        THEN "Invalid open tab payload"
    ELSE "none"

\* _get_client: the exception it raises, or "none" when it returns a client.
_get_client_NeverRaises(api_key) == "none"

_get_client(api_key) == IF ~api_key THEN "LLMSuggestionError" ELSE "none"

NoOutcome == [kind |-> "none", detail |-> "", value |-> <<>>]
Raised(k, d) == [kind |-> k, detail |-> d, value |-> <<>>]
Returned(v) == [kind |-> "return", detail |-> "", value |-> v]

\* The exception select_tabs_with_llm raises before it issues the request, or NoOutcome.
Preflight_NoValidation(a, api_key) ==
    IF _get_client(api_key) # "none"
        THEN Raised(_get_client(api_key), "Missing OPENAI_API_KEY")
    ELSE NoOutcome

Preflight(a, api_key) ==
    IF ValidateArgs(a) # "none" THEN Raised("ValueError", ValidateArgs(a))
    ELSE IF _get_client(api_key) # "none"
        THEN Raised(_get_client(api_key), "Missing OPENAI_API_KEY")
    ELSE NoOutcome

(***************************************************************************)
(* The model's reply.  The await either raises or yields a response whose  *)
(* first choice carries a content string; json.loads of the content either *)
(* raises JSONDecodeError or yields a JSON value.  Only the shape the code *)
(* looks at is kept: the top-level type, the type of `tabs`, its items.    *)
(***************************************************************************)
\* The value of an item's "score" key, and what float() makes of it.
Score(form, num) == [form |-> form, num |-> num]
ScoreValues ==
    { Score("absent", 0),      \* no "score" key
      Score("number", 7),      \* 0.7
      Score("number", 70),     \* 7.0
      Score("numstr", 7),      \* "0.7"
      Score("string", 0),      \* "high"
      Score("null", 0),        \* null
      Score("bigint", 0) }     \* an integer literal beyond the float range

DefaultScore == 5
DefaultReason == "No reason provided."

\* float(item.get("score", 0.5))
FloatOf(sc) ==
    CASE sc.form = "absent" -> [num |-> DefaultScore, exc |-> "none"]
      [] sc.form = "number" -> [num |-> sc.num, exc |-> "none"]
      [] sc.form = "numstr" -> [num |-> sc.num, exc |-> "none"]
      [] sc.form = "string" -> [num |-> 0, exc |-> "ValueError"]
      [] sc.form = "null"   -> [num |-> 0, exc |-> "TypeError"]
      [] sc.form = "bigint" -> [num |-> 0, exc |-> "OverflowError"]

WellFormedItem ==
    [url |-> "https://a", dict |-> TRUE, title |-> "T", reason |-> "why",
     score |-> Score("number", 7)]

AllItems ==
    [url : {Absent, BadUrl, ForeignUrl} \cup BookmarkUrls,
     dict : BOOLEAN, title : {Absent, "T"},
     reason : {Absent, "", "why"}, score : ScoreValues]

Deviations(it) ==
    Cardinality({f \in {"dict", "title", "url", "reason", "score"} :
                    it[f] # WellFormedItem[f]})

\* The items tried: the well-formed one and every item one field away from it.
Items == {it \in AllItems : Deviations(it) <= 1}

Reply(kind, json, tabs, items) ==
    [kind |-> kind, json |-> json, tabs |-> tabs, items |-> items]

Responses ==
    { Reply("raise", "", "", <<>>),          \* create() raised an Exception
      Reply("no_choices", "", "", <<>>),     \* response.choices == []
      Reply("null_message", "", "", <<>>),   \* choices[0].message is None
      Reply("null_content", "", "", <<>>),   \* message.content is None
      Reply("content", "invalid", "", <<>>) }   \* content is not JSON
    \cup {Reply("content", j, "", <<>>) : j \in {"null", "number", "string", "array"}}
    \cup {Reply("content", "object", t, <<>>) : t \in {Absent, "null", "string", "object"}}
    \cup {Reply("content", "object", "list", l) : l \in SeqsUpTo(Items, MaxItems)}

(***************************************************************************)
(* select_tabs_with_llm after the await (src/llm.py 243-279).              *)
(***************************************************************************)
Suggestion(it) ==
    [url |-> it.url,
     title |-> it.title,
     reason |-> IF it.reason = Absent THEN DefaultReason ELSE it.reason,
     score |-> FloatOf(it.score).num]

\* One pass of the loop body: "skip" (continue), "append", or the exception that
\* leaves the except clause of line 275 uncaught.
ItemStep(it) ==
    IF ~it.dict THEN "skip"
    ELSE IF it.title = Absent \/ it.url = Absent THEN "skip"      \* KeyError
    ELSE IF FloatOf(it.score).exc \in {"TypeError", "ValueError"} THEN "skip"
    ELSE IF FloatOf(it.score).exc # "none" THEN FloatOf(it.score).exc
    ELSE "append"

\* The loop of lines 264-277 from item i on, with `acc` the suggestions so far.
RECURSIVE ParseTabs(_, _, _)
ParseTabs(items, i, acc) ==
    IF i > Len(items) THEN [exc |-> "none", suggestions |-> acc]
    ELSE LET step == ItemStep(items[i]) IN
         IF step = "skip" THEN ParseTabs(items, i + 1, acc)
         ELSE IF step = "append"
             THEN ParseTabs(items, i + 1, Append(acc, Suggestion(items[i])))
         ELSE [exc |-> step, suggestions |-> acc]

\* Python's s[:n]
SliceTo_All(s, n) == s

SliceTo(s, n) ==
    IF n >= 0 THEN SubSeq(s, 1, Min(n, Len(s)))
    ELSE SubSeq(s, 1, Max(0, Len(s) + n))

Interpret(r, max_tabs) ==
    IF r.kind = "raise" THEN Raised("LLMSuggestionError", "OpenAI API request failed")
    ELSE IF r.kind = "no_choices"
        THEN Raised("LLMSuggestionError", "Language model returned no choices.")
    ELSE IF r.kind \in {"null_message", "null_content"}
        THEN Raised("LLMSuggestionError", "Language model returned an empty message.")
    ELSE IF r.json = "invalid"
        THEN Raised("LLMSuggestionError", "Language model response was not valid JSON.")
    ELSE IF r.json # "object"
        THEN Raised("AttributeError", "payload has no attribute 'get'")
    ELSE IF r.tabs # "list"
        THEN Raised("LLMSuggestionError", "response did not include a 'tabs' list")
    ELSE LET parsed == ParseTabs(r.items, 1, <<>>) IN
         IF parsed.exc # "none" THEN Raised(parsed.exc, "float()")
         ELSE Returned(SliceTo(parsed.suggestions, max_tabs))

(***************************************************************************)
(* POST /tabs (src/main.py 93-134).                                        *)
(***************************************************************************)
MAX_TABS_DEFAULT == 5

NoHttp == [tabs |-> <<>>, status |-> 0]
HttpError(status) == [tabs |-> <<>>, status |-> status]

\* Tab(...) validates its fields; url is an HttpUrl.
TabOk(s) == HttpUrlOk(s.url)

Respond_NoEmptyCheck(o) ==
    IF o.kind = "ValueError" THEN HttpError(400)
    ELSE IF o.kind = "LLMSuggestionError" THEN HttpError(502)
    ELSE IF o.kind # "return" THEN HttpError(500)
    ELSE IF \E i \in 1..Len(o.value) : ~TabOk(o.value[i]) THEN HttpError(500)
    ELSE [tabs |-> o.value, status |-> 200]

\* Lines 113-134: the answer for the way select_tabs_with_llm ended.  An exception
\* that no except clause names leaves the handler: the framework answers 500.
Respond(o) ==
    IF o.kind = "ValueError" THEN HttpError(400)
    ELSE IF o.kind = "LLMSuggestionError" THEN HttpError(502)
    ELSE IF o.kind # "return" THEN HttpError(500)
    ELSE IF o.value = <<>> THEN HttpError(502)
    ELSE IF \E i \in 1..Len(o.value) : ~TabOk(o.value[i]) THEN HttpError(500)
    ELSE [tabs |-> o.value, status |-> 200]

EffectiveMaxTabs(limit) == IF limit > 0 THEN limit ELSE MAX_TABS_DEFAULT

(***************************************************************************)
(* The keyword scorer (src/main.py 55-90).  Text is drawn over the         *)
(* characters a, B, "-" and space; \w matches the letters.                 *)
(***************************************************************************)
Chars == {"a", "B", "-", " "}

LowerChar(c) == IF c = "B" THEN "b" ELSE c
Lower(s) == [i \in 1..Len(s) |-> LowerChar(s[i])]

IsWordChar(c) == c \in {"a", "b", "B"}       \* \w
InTokenClass(c) == IsWordChar(c) \/ c = "-"   \* [\w-]

\* \b at position p (before s[p]; p = Len(s)+1 is the end of the string)
WordBoundary(s, p) ==
    LET before == p > 1 /\ IsWordChar(s[p - 1])
        after == p <= Len(s) /\ IsWordChar(s[p])
    IN  before # after

\* Where a match of \b[\w-]+\b that starts at p ends (the position after its last
\* character), 0 when there is none: + is greedy and gives back characters until
\* \b holds.
MatchEnd(s, p) ==
    LET ends == {q \in (p + 1)..(Len(s) + 1) :
                    /\ \A k \in p..(q - 1) : InTokenClass(s[k])
                    /\ WordBoundary(s, q)}
    IN  IF WordBoundary(s, p) /\ ends # {}
            THEN CHOOSE q \in ends : \A r \in ends : r <= q
            ELSE 0

\* re.findall scanning from position p: leftmost matches, none overlapping.
RECURSIVE FindAll(_, _)
FindAll(s, p) ==
    IF p > Len(s) THEN <<>>
    ELSE IF MatchEnd(s, p) = 0 THEN FindAll(s, p + 1)
    ELSE <<SubSeq(s, p, MatchEnd(s, p) - 1)>> \o FindAll(s, MatchEnd(s, p))

_tokenize(text) ==
    LET tokens == FindAll(Lower(text), 1)
    IN  {tokens[i] : i \in {j \in 1..Len(tokens) : tokens[j] # <<>>}}

\* " ".join(parts)
RECURSIVE JoinSpace(_)
JoinSpace(parts) ==
    IF parts = <<>> THEN <<>>
    ELSE IF Len(parts) = 1 THEN parts[1]
    ELSE parts[1] \o <<" ">> \o JoinSpace(Tail(parts))

\* A Bookmark: description and tags are optional (None is given = FALSE).
NoText == [given |-> FALSE, text |-> <<>>]
SomeText(t) == [given |-> TRUE, text |-> t]
NoTags == [given |-> FALSE, list |-> <<>>]
SomeTags(l) == [given |-> TRUE, list |-> l]

_combine_fields(bookmark) ==
    <<bookmark.title>>
    \o (IF bookmark.description.given /\ bookmark.description.text # <<>>
           THEN <<bookmark.description.text>> ELSE <<>>)
    \o (IF bookmark.tags.given /\ bookmark.tags.list # <<>>
           THEN bookmark.tags.list ELSE <<>>)

_bookmark_tokens(bookmark) == _tokenize(JoinSpace(_combine_fields(bookmark)))

\* `token in title_lower`
IsSubstring(t, s) ==
    \E i \in 1..(Len(s) + 1) : i + Len(t) - 1 <= Len(s) /\ SubSeq(s, i, i + Len(t) - 1) = t

\* sorted() of a set of str: by code point, a prefix before its extensions.
Ord(c) == CASE c = " " -> 32 [] c = "-" -> 45 [] c = "B" -> 66 [] c = "a" -> 97 [] c = "b" -> 98

RECURSIVE StrLess(_, _)
StrLess(s, t) ==
    IF t = <<>> THEN FALSE
    ELSE IF s = <<>> THEN TRUE
    ELSE IF Head(s) # Head(t) THEN Ord(Head(s)) < Ord(Head(t))
    ELSE StrLess(Tail(s), Tail(t))

RECURSIVE Sorted(_)
Sorted(S) ==
    IF S = {} THEN <<>>
    ELSE LET m == CHOOSE x \in S : \A y \in S : x = y \/ StrLess(x, y)
         IN  <<m>> \o Sorted(S \ {m})

Scored(score, reason, matched) == [reason |-> reason, score |-> score, matched |-> matched]

_score_bookmark_NoTitleFallback(bookmark, prompt_tokens) ==
    LET matched == prompt_tokens \cap _bookmark_tokens(bookmark)
    IN  IF matched # {}
            THEN Scored(10 * Cardinality(matched), "Matched keywords", Sorted(matched))
            ELSE Scored(0, "No keyword matches; keeping bookmark for context.", <<>>)

\* The score is in tenths; `matched` is the list the reason joins with ", ".
_score_bookmark(bookmark, prompt_tokens) ==
    IF prompt_tokens = {}
        THEN Scored(0, "No prompt keywords; preserving original order.", <<>>)
    ELSE IF _bookmark_tokens(bookmark) = {}
        THEN Scored(0, "Bookmark has no descriptive text to compare.", <<>>)
    ELSE LET matched == prompt_tokens \cap _bookmark_tokens(bookmark) IN
         IF matched # {}
             THEN Scored(10 * Cardinality(matched), "Matched keywords", Sorted(matched))
         ELSE IF \E token \in prompt_tokens : IsSubstring(token, Lower(bookmark.title))
             THEN Scored(5, "Prompt keywords appear within the bookmark title.", <<>>)
         ELSE Scored(0, "No keyword matches; keeping bookmark for context.", <<>>)

(***************************************************************************)
(* The heuristic ranker.  Its code is not among the source files; it is    *)
(* modelled from the specification (section 4.3, Ranking): a stable sort   *)
(* by descending score, truncated to `limit` entries, all when limit <= 0. *)
(***************************************************************************)
\* The positions of `scores` in ranked order: the best remaining score first, the
\* lowest original index among equals.
RECURSIVE RankOrder_Unstable(_, _)
RankOrder_Unstable(scores, left) ==
    IF left = {} THEN <<>>
    ELSE LET best == CHOOSE i \in left :
                        \A j \in left : scores[j] < scores[i] \/ (scores[j] = scores[i] /\ j <= i)
         IN  <<best>> \o RankOrder_Unstable(scores, left \ {best})

RECURSIVE RankOrder(_, _)
RankOrder(scores, left) ==
    IF left = {} THEN <<>>
    ELSE LET best == CHOOSE i \in left :
                        \A j \in left : scores[j] < scores[i] \/ (scores[j] = scores[i] /\ i <= j)
         IN  <<best>> \o RankOrder(scores, left \ {best})

HeuristicRank(prompt, bookmarks, limit) ==
    LET prompt_tokens == _tokenize(prompt)
        scored == [i \in 1..Len(bookmarks) |-> _score_bookmark(bookmarks[i], prompt_tokens)]
        order == RankOrder([i \in 1..Len(bookmarks) |-> scored[i].score], 1..Len(bookmarks))
        ranked == [k \in 1..Len(order) |->
                      [score |-> scored[order[k]].score, index |-> order[k]]]
    IN  IF limit > 0 THEN SubSeq(ranked, 1, Min(limit, Len(ranked))) ELSE ranked

\* Inputs of the scorer and the ranker.
Titles == UNION {[1..k -> Chars] : k \in 0..MaxTitleLen}
Descriptions == {NoText, SomeText(<<>>), SomeText(<<"B">>)}
TagLists == {NoTags, SomeTags(<<>>), SomeTags(<<<<"a", "-", "B">>>>)}
TokenStrings == {<<"a">>, <<"b">>, <<"-">>, <<"a", "b">>, <<"a", "-", "b">>}
PromptTokenSets == {S \in SUBSET TokenStrings : Cardinality(S) <= MaxPromptTokens}

RankPrompts == {<<"-">>, <<"B">>, <<"a", " ", "B">>}
RankTitles == {<<"a">>, <<"B", " ", "a">>, <<"a", "B">>, <<"-">>}
RankBookmarks == [title : RankTitles, description : {NoText}, tags : {NoTags}]

NoHeur == [op |-> "none"]

(***************************************************************************)
(* The state machine.                                                      *)
(***************************************************************************)
NoArgs ==
    [prompt |-> <<>>, bookmarks |-> <<>>, max_tabs |-> 0, history |-> NoneArg,
     open_tabs |-> NoneArg]

Init ==
    /\ env_api_key \in BOOLEAN
    /\ pc = "idle"
    /\ entry = "none"
    /\ args = NoArgs
    /\ calls = 0
    /\ response = Reply("none", "", "", <<>>)
    /\ outcome = NoOutcome
    /\ http = NoHttp
    /\ heur = NoHeur

\* Lines 187-231 of select_tabs_with_llm for the arguments a, called from `who`:
\* it raises, or issues the request and suspends.
Begin(who, a) ==
    /\ pc = "idle"
    /\ entry' = who
    /\ args' = a
    /\ IF Preflight(a, env_api_key) # NoOutcome
          THEN /\ pc' = "done"
               /\ outcome' = Preflight(a, env_api_key)
               /\ calls' = calls
               /\ http' = IF who = "plan_tabs_llm"
                             THEN Respond(Preflight(a, env_api_key)) ELSE NoHttp
          ELSE /\ pc' = "awaiting"
               /\ calls' = calls + 1
               /\ UNCHANGED <<outcome, http>>
    /\ UNCHANGED <<env_api_key, response, heur>>

\* A direct call of select_tabs_with_llm.
SelectCall ==
    \E p \in Prompts, b \in ValidBookmarkLists \cup InvalidBookmarkLists,
       h \in OptionalContext, o \in OptionalContext, m \in (-1)..MaxTabs :
        Begin("select_tabs_with_llm",
              [prompt |-> p, bookmarks |-> b, max_tabs |-> m, history |-> h, open_tabs |-> o])

\* POST /tabs: the framework has validated the body (every bookmark url is an HttpUrl).
PlanTabsCall ==
    \E p \in Prompts, b \in ValidBookmarkLists,
       limit \in (-1)..MaxTabs :
        Begin("plan_tabs_llm",
              [prompt |-> p, bookmarks |-> b, max_tabs |-> EffectiveMaxTabs(limit),
               history |-> NoneArg, open_tabs |-> NoneArg])

\* The await ends: lines 243-279, and for POST /tabs lines 113-134.
Resume ==
    /\ pc = "awaiting"
    /\ \E r \in Responses :
          /\ response' = r
          /\ outcome' = Interpret(r, args.max_tabs)
          /\ http' = IF entry = "plan_tabs_llm"
                        THEN Respond(Interpret(r, args.max_tabs)) ELSE NoHttp
    /\ pc' = "done"
    /\ UNCHANGED <<env_api_key, entry, args, calls, heur>>

ScoreCall ==
    /\ pc = "idle"
    /\ \E t \in Titles, d \in Descriptions, g \in TagLists, pt \in PromptTokenSets :
          LET bookmark == [title |-> t, description |-> d, tags |-> g] IN
          heur' = [bookmark |-> bookmark, prompt_tokens |-> pt, op |-> "score",
                   result |-> _score_bookmark(bookmark, pt)]
    /\ pc' = "done"
    /\ entry' = "_score_bookmark"
    /\ UNCHANGED <<env_api_key, args, calls, response, outcome, http>>

RankCall ==
    /\ pc = "idle"
    /\ \E p \in RankPrompts, n \in 1..MaxRanked, limit \in (-1)..MaxTabs :
          \E b \in [1..n -> RankBookmarks] :
              heur' = [prompt |-> p, bookmarks |-> b, limit |-> limit, op |-> "rank",
                       result |-> HeuristicRank(p, b, limit)]
    /\ pc' = "done"
    /\ entry' = "rank"
    /\ UNCHANGED <<env_api_key, args, calls, response, outcome, http>>

Next == SelectCall \/ PlanTabsCall \/ Resume \/ ScoreCall \/ RankCall

Spec == Init /\ [][Next]_vars

(***************************************************************************)
(* Properties.                                                             *)
(***************************************************************************)
LLMEntry == entry \in {"select_tabs_with_llm", "plan_tabs_llm"}
Finished == pc = "done" /\ LLMEntry
ReturnedList == Finished /\ outcome.kind = "return"
GotTabsList == Finished /\ response.kind = "content" /\ response.json = "object"
                        /\ response.tabs = "list"

\* What the parsing loop accepts of the reply, before truncation.
AcceptedSuggestions == ParseTabs(response.items, 1, <<>>).suggestions

BookmarkUrlsOf(a) == {a.bookmarks[i].url : i \in 1..Len(a.bookmarks)}

\* C1: the returned list is no longer than max_tabs and is exactly the first
\* min(max_tabs, k) of the k accepted items, in the model's order.
C1_TruncatedPrefix ==
    ReturnedList =>
        /\ Len(outcome.value) <= args.max_tabs
        /\ outcome.value =
              SubSeq(AcceptedSuggestions, 1, Min(args.max_tabs, Len(AcceptedSuggestions)))

C1_Witness ==
    /\ ReturnedList
    /\ Len(AcceptedSuggestions) > args.max_tabs
    /\ Len(outcome.value) = args.max_tabs

\* The inputs the claims call invalid: blank prompt, empty bookmark list,
\* max_tabs <= 0, an invalid bookmark / history / open-tab record.
InvalidInput(a) ==
    \/ \A i \in 1..Len(a.prompt) : a.prompt[i] = " "
    \/ Len(a.bookmarks) = 0
    \/ a.max_tabs <= 0
    \/ \E i \in 1..Len(a.bookmarks) : a.bookmarks[i].url = BadUrl
    \/ \E i \in 1..Len(a.history.list) : a.history.list[i].url = BadUrl
    \/ \E i \in 1..Len(a.open_tabs.list) : a.open_tabs.list[i].url = BadUrl

\* C2 as stated: the request is issued zero times when validation fails and
\* exactly once otherwise.
C2_OnceUnlessInvalid ==
    Finished => calls = (IF InvalidInput(args) THEN 0 ELSE 1)

\* C2 amended: the request is issued at most once; zero times when validation fails
\* (a ValueError, raised before any call) and also when the API credential is absent
\* (an LLMSuggestionError, raised before any call); exactly once otherwise; a failed
\* call is not retried and ends the call with an LLMSuggestionError.
C2_AtMostOnce ==
    /\ calls <= 1
    /\ (LLMEntry /\ pc # "idle") =>
          calls = (IF InvalidInput(args) \/ ~env_api_key THEN 0 ELSE 1)
    /\ (LLMEntry /\ InvalidInput(args)) => (pc = "done" /\ outcome.kind = "ValueError")
    /\ (Finished /\ response.kind = "raise") =>
          (calls = 1 /\ outcome.kind = "LLMSuggestionError")

C2_Witness ==
    /\ Finished
    /\ env_api_key
    /\ args.history.given /\ args.history.list[1].url = BadUrl
    /\ Len(args.bookmarks) > 0 /\ args.max_tabs > 0
    /\ calls = 0
    /\ outcome.kind = "ValueError"

\* The replies that are a failure to contact or interpret the model.
PlanningFailure(r) ==
    \/ r.kind \in {"raise", "no_choices", "null_message", "null_content"}
    \/ r.kind = "content" /\ r.json = "invalid"
    \/ r.kind = "content" /\ r.json # "object"
    \/ r.kind = "content" /\ r.json = "object" /\ r.tabs # "list"

\* C3: every failure to contact or interpret the model ends in LLMSuggestionError.
C3_OnePlanningErrorKind ==
    (Finished /\ calls = 1 /\ PlanningFailure(response)) =>
        outcome.kind = "LLMSuggestionError"

\* The items C4 calls well formed, and the suggestion each is to yield.
ScoreConvertible(sc) == sc.form \in {"absent", "number", "numstr"}
WellFormed(it) ==
    it.dict /\ it.title # Absent /\ it.url # Absent /\ ScoreConvertible(it.score)
ExpectedSuggestion(it) ==
    [url |-> it.url,
     title |-> it.title,
     reason |-> IF it.reason = Absent THEN "No reason provided." ELSE it.reason,
     score |-> IF it.score.form = "absent" THEN 5 ELSE it.score.num]
ExpectedSuggestions(items) ==
    LET kept == SelectSeq(items, WellFormed)
    IN  [i \in 1..Len(kept) |-> ExpectedSuggestion(kept[i])]

\* C4: no item of the `tabs` array raises an error; the suggestions before
\* truncation are those of the well-formed items, one each, in order.
C4_PerItemPartialSuccess ==
    GotTabsList =>
        /\ outcome.kind = "return"
        /\ AcceptedSuggestions = ExpectedSuggestions(response.items)

\* C5: every returned suggestion carries the url of one of the request's bookmarks.
C5_UrlsFromBookmarks ==
    /\ ReturnedList =>
          \A i \in 1..Len(outcome.value) : outcome.value[i].url \in BookmarkUrlsOf(args)
    /\ (Finished /\ http.status = 200) =>
          \A i \in 1..Len(http.tabs) : http.tabs[i].url \in BookmarkUrlsOf(args)

\* C6: every returned suggestion has a non-empty reason and a score in [0, 1].
C6_ReasonAndScoreContract ==
    ReturnedList =>
        \A i \in 1..Len(outcome.value) :
            /\ outcome.value[i].reason # ""
            /\ 0 <= outcome.value[i].score /\ outcome.value[i].score <= 10

\* C7: POST /tabs never answers 200 with an empty list; zero suggestions are
\* answered 502, validation failures 400.
C7_NoEmptySuccess ==
    (pc = "done" /\ entry = "plan_tabs_llm") =>
        /\ http.status = 200 => http.tabs # <<>>
        /\ (outcome.kind = "return" /\ outcome.value = <<>>) => http.status = 502
        /\ outcome.kind = "ValueError" => http.status = 400

C7_Witness ==
    /\ pc = "done" /\ entry = "plan_tabs_llm"
    /\ response.tabs = "list" /\ response.items # <<>>
    /\ outcome.kind = "return" /\ outcome.value = <<>>
    /\ http.status = 502

NoCredential == LLMEntry /\ pc # "idle" /\ ~env_api_key /\ ~InvalidInput(args)

\* C8 as stated: without the credential the call fails with no request issued, with
\* an error kind that is neither the validation kind nor the planning kind.
C8_OwnErrorKind ==
    NoCredential =>
        /\ pc = "done" /\ calls = 0
        /\ outcome.kind \notin {"none", "return", "ValueError", "LLMSuggestionError"}

\* C8 amended: without the credential the call fails with no request issued, with an
\* LLMSuggestionError: the planning error kind (502 from POST /tabs), distinct from
\* the validation kind (ValueError, 400).
C8_FailsAsPlanningError ==
    NoCredential =>
        /\ pc = "done" /\ calls = 0
        /\ outcome.kind = "LLMSuggestionError"
        /\ entry = "plan_tabs_llm" => http.status = 502

C8_Witness ==
    /\ NoCredential
    /\ entry = "plan_tabs_llm"
    /\ http.status = 502

\* The cascade the claim gives for a non-empty prompt token set, in tenths.
CascadeScore(bookmark, prompt_tokens) ==
    IF prompt_tokens = {} THEN 0
    ELSE IF prompt_tokens \cap _bookmark_tokens(bookmark) # {}
        THEN 10 * Cardinality(prompt_tokens \cap _bookmark_tokens(bookmark))
    ELSE IF \E t \in prompt_tokens : IsSubstring(t, Lower(bookmark.title)) THEN 5
    ELSE 0

IsAscending(seq) == \A i, j \in 1..Len(seq) : i < j => StrLess(seq[i], seq[j])

MatchedListed(h) ==
    LET shared == h.prompt_tokens \cap _bookmark_tokens(h.bookmark) IN
    shared # {} =>
        /\ h.result.reason = "Matched keywords"
        /\ {h.result.matched[i] : i \in 1..Len(h.result.matched)} = shared
        /\ IsAscending(h.result.matched)

C10_RankedAndBounded ==
    heur.op = "rank" =>
        LET out == heur.result
            n == Len(heur.bookmarks)
        IN  /\ \A i, j \in 1..Len(out) :
                  i < j => \/ out[i].score > out[j].score
                           \/ out[i].score = out[j].score /\ out[i].index < out[j].index
            /\ \A i \in 1..Len(out) :
                  /\ out[i].index \in 1..n
                  /\ out[i].score =
                        _score_bookmark(heur.bookmarks[out[i].index],
                                        _tokenize(heur.prompt)).score
            /\ Len(out) = (IF heur.limit > 0 THEN Min(heur.limit, n) ELSE n)
            /\ \A k \in 1..n : \A i \in 1..Len(out) :
                  out[i].index # k =>
                      \/ \E j \in 1..Len(out) : out[j].index = k
                      \/ _score_bookmark(heur.bookmarks[k], _tokenize(heur.prompt)).score
                             <= out[i].score

C10_Witness ==
    /\ heur.op = "rank"
    /\ heur.limit > 0 /\ heur.limit < Len(heur.bookmarks)
    /\ Len(heur.result) = heur.limit
    /\ \E i, j \in 1..Len(heur.result) :
          i < j /\ heur.result[i].score = heur.result[j].score
    /\ heur.result[1].index # 1

====
